---- MODULE Spec2Model ----
(***************************************************************************)
(* A model of ntop (src/src/app.rs, src/src/ps.rs, src/src/main.rs): the   *)
(* event loop of App::run, the key handler, App::refresh with its          *)
(* self-rescheduling refresh task, the terminal relay task, main's         *)
(* restoring of the terminal, and the pure functions show_duration and     *)
(* render_tree, the latter also call by call.                              *)
(*                                                                         *)
(* Durations are in milliseconds.  An Option<T> is a sequence of length at *)
(* most one: None is << >> and Some(x) is << x >>.  Table rows are indexed *)
(* from 0 as in the code; TLA+ sequences are indexed from 1.               *)
(***************************************************************************)
EXTENDS Integers, Sequences, FiniteSets, TLC

VARIABLES
    pc,               \* where main / App::run stands
    result,           \* the value App::run returned: "none" until it returns
    running,          \* App.running
    queue,            \* the unbounded mpsc channel: sent and not yet received
    closed,           \* the receiver has been dropped (sender.closed() resolves)
    refresh_interval, \* App.refresh_interval, ms
    active_builds,    \* App.active_builds
    selected,         \* App.table_state.selected(): Option<usize>
    direction,        \* App.direction
    relay,            \* the terminal event task of App::run
    tasks,            \* the live refresh tasks spawned by App::refresh
    event,            \* the event received by the current loop iteration
    build,            \* render_tree's argument: build.processes
    root,             \* render_tree's argument: pid
    tree,             \* render_tree's result (a String), or Pending
    stack,            \* the frames of the render_tree calls in progress
    duration,         \* show_duration's argument, in whole seconds
    shown             \* show_duration's result (a String), or Pending

vars == << pc, result, running, queue, closed, refresh_interval, active_builds,
           selected, direction, relay, tasks, event, build, root, tree, stack,
           duration, shown >>

loopVars == << pc, result, running, queue, closed, refresh_interval,
               active_builds, selected, direction, relay, tasks, event >>

treeVars == << build, root, tree >>

durationVars == << duration, shown >>

\* the arguments and results of the pure functions, which the loop leaves alone
pureVars == << treeVars, stack, durationVars >>

----------------------------------------------------------------------------
(* Bounds of the model *)

\* the terminal relay keeps at most this many of its events in the channel
MaxQueue == 1

\* '+' is pressed at most this many steps above the default interval
MaxPlus == 1

\* the most builds one `nix ps` output holds
MaxBuilds == 2

\* the most processes of the build handed to render_tree
MaxProcs == 4

\* the most processes of the build whose rendering is followed call by call
MaxCallProcs == 3

\* the calls of render_tree that can be in progress at once: one more than
\* there are processes, so that some pid has then been entered twice
MaxDepth == MaxCallProcs + 1

\* show_duration is given every whole number of seconds below MaxDays + 1 days
MaxDays == 1

----------------------------------------------------------------------------
(* Program constants *)

DefaultInterval == 2000

IntervalStep == 100

IntervalFloor == 100

\* usize::MAX: TLC's integers are 32 bits wide, so the largest of them stands
\* for it; the code only compares it with row counts and saturates on it.
USIZE_MAX == 2147483647

None == << >>

Some(x) == << x >>

----------------------------------------------------------------------------
(* ps.rs *)

NixPids == {1, 2}

\* derivations, by their rank in the string order
Derivations == {1, 2}

Build == [derivation : Derivations, nix_pid : NixPids]

RECURSIVE InsertSorted(_, _)
\* one step of the stable sort: b goes after every element not greater than it
InsertSorted(s, b) ==
    IF s = << >> THEN << b >>
    ELSE IF Head(s).derivation <= b.derivation
         THEN << Head(s) >> \o InsertSorted(Tail(s), b)
         ELSE << b >> \o s

\* mutant: the data is sent in the order `nix ps` printed it
SortByDerivationKeepsOrder(s) == s

RECURSIVE SortByDerivation(_)
\* data.sort_by(|a, b| a.derivation.cmp(&b.derivation)): a stable sort
SortByDerivation(s) ==
    IF s = << >> THEN << >>
    ELSE InsertSorted(SortByDerivation(SubSeq(s, 1, Len(s) - 1)), s[Len(s)])

\* what `nix ps --json` can print: any list of builds with distinct derivations
NixPsData ==
    { s \in UNION { [1..n -> Build] : n \in 0..MaxBuilds } :
        \A i, j \in 1..Len(s) : i # j => s[i].derivation # s[j].derivation }

Err == [ok |-> FALSE, builds |-> << >>]

Ok(builds) == [ok |-> TRUE, builds |-> builds]

\* ps::get(): an error of the command or of the decoding, or the sorted data
PsGet == {Err} \cup { Ok(SortByDerivation(d)) : d \in NixPsData }

----------------------------------------------------------------------------
(* Events *)

Refresh(output) == [type |-> "Refresh", output |-> output]

Quit == [type |-> "Quit"]

Key(kind, code, mods) == [type |-> "Key", kind |-> kind, code |-> code, mods |-> mods]

Press(code) == Key("Press", code, {})

\* the events the terminal produces in Spec: the selection keys, the quit
\* keys, a key that is no command, a key release and a resize
TerminalEvents ==
    { Press(c) : c \in {"Up", "Down", "Esc", "q", "c"} }
    \cup { Key("Press", "c", {"CONTROL"}), Key("Release", "q", {}), [type |-> "Resize"] }

\* the events the terminal produces in SpecInterval: the interval keys, the
\* layout key, a quit key, Ctrl-Shift-C (no quit key) and a resize
IntervalEvents ==
    { Press(c) : c \in {"-", "=", "+", "/", "q"} }
    \cup { Key("Press", "C", {"CONTROL", "SHIFT"}), [type |-> "Resize"] }

NoEvent == [type |-> "None"]

----------------------------------------------------------------------------
(* TableState (ratatui), as App uses it *)

\* TableState::select_previous: from None the last row, never below row 0
select_previous(sel) ==
    IF sel = None THEN Some(USIZE_MAX)
    ELSE Some(IF sel[1] = 0 THEN 0 ELSE sel[1] - 1)

\* TableState::select_next: from None row 0, saturating at usize::MAX
select_next(sel) ==
    IF sel = None THEN Some(0)
    ELSE Some(IF sel[1] = USIZE_MAX THEN USIZE_MAX ELSE sel[1] + 1)

\* what rendering the table does to the selection (the table is drawn into an
\* area with room for it): an index past the end becomes the last row, and no
\* row stays selected in an empty table
render_stateful_widget(sel, rows) ==
    IF rows = 0 THEN None
    ELSE IF sel # None /\ sel[1] >= rows THEN Some(rows - 1)
    ELSE sel

----------------------------------------------------------------------------
(* App::handle_key_events *)

saturating_sub(a, b) == IF a >= b THEN a - b ELSE 0

\* mutant: the decrement without its floor
DecreaseIntervalNoFloor(interval) == saturating_sub(interval, IntervalStep)

\* KeyCode::Char('-')
DecreaseInterval(interval) ==
    LET new == saturating_sub(interval, IntervalStep)
    IN IF new >= IntervalFloor THEN new ELSE interval

\* KeyCode::Char('=' | '+'); Duration's saturation is out of the model's reach
IncreaseInterval(interval) == interval + IntervalStep

FlipDirection(d) == IF d = "Horizontal" THEN "Vertical" ELSE "Horizontal"

\* mutant: only Ctrl-C quits
IsQuitKeyCtrlOnly(code, mods) == code \in {"c", "C"} /\ mods = {"CONTROL"}

\* the arms that send Event::App(AppEvent::Quit)
IsQuitKey(code, mods) ==
    \/ code = "q"
    \/ code \in {"c", "C"} /\ mods = {"CONTROL"}

KeyInterval(code, interval) ==
    CASE code = "-" -> DecreaseInterval(interval)
      [] code \in {"=", "+"} -> IncreaseInterval(interval)
      [] OTHER -> interval

KeySelected(code, sel) ==
    CASE code \in {"Up", "k"} -> select_previous(sel)
      [] code \in {"Down", "j"} -> select_next(sel)
      [] code = "Esc" -> None
      [] OTHER -> sel

KeyDirection(code, d) == IF code = "/" THEN FlipDirection(d) ELSE d

\* mutant: the quit keys send nothing
KeySendsNothing(code, mods) == << >>

\* what the handler sends into the channel
KeySends(code, mods) == IF IsQuitKey(code, mods) THEN << Quit >> ELSE << >>

----------------------------------------------------------------------------
(* App::refresh *)

\* self.active_builds.iter().position(|b| b.nix_pid == pid)
Position(builds, pid) ==
    LET hits == { i \in 1..Len(builds) : builds[i].nix_pid = pid }
    IN IF hits = {} THEN None
       ELSE Some((CHOOSE i \in hits : \A j \in hits : i <= j) - 1)

\* selected().and_then(|i| self.active_builds.get(i)).map(|b| b.nix_pid)
PreviousSelection(sel, builds) ==
    IF sel # None /\ sel[1] < Len(builds) THEN Some(builds[sel[1] + 1].nix_pid) ELSE None

\* previous_selection.and_then(|pid| ...position(...))
NewSelection(previous, builds) ==
    IF previous = None THEN None ELSE Position(builds, previous[1])

\* mutant: an error empties the snapshot
RefreshBuildsAlways(output, builds) == output.builds

\* self.active_builds = builds, under `if let Ok(builds) = output`
RefreshBuilds(output, builds) == IF output.ok THEN output.builds ELSE builds

\* mutant: the selection keeps its row number
RefreshSelectedKeepRow(output, sel, builds) == sel

\* self.table_state.select(new_selection), under the same `if let`
RefreshSelected(output, sel, builds) ==
    IF output.ok THEN NewSelection(PreviousSelection(sel, builds), output.builds) ELSE sel

\* mutant: the task always sleeps for the default interval
SpawnedTaskDefault(interval) == [at |-> "sleep", duration |-> DefaultInterval]

\* the task App::refresh spawns: it sleeps for the interval read at the spawn
SpawnedTask(interval) == [at |-> "sleep", duration |-> interval]

\* mutant: the next refresh is scheduled under the `if let Ok`
RefreshTasksOnlyOnOk(output, interval, spawned) ==
    IF output.ok THEN Append(spawned, SpawnedTask(interval)) ELSE spawned

\* mutant: a refresh schedules two tasks
RefreshTasksTwice(output, interval, spawned) ==
    spawned \o << SpawnedTask(interval), SpawnedTask(interval) >>

\* schedule next refresh: after the `if let`, whatever the output was
RefreshTasks(output, interval, spawned) == Append(spawned, SpawnedTask(interval))

----------------------------------------------------------------------------
(* render_tree.  A String is the sequence of its characters.  The box      *)
(* drawing characters are written in ASCII here: "L" is U+2514 (up and     *)
(* right), "T" is U+251C (vertical and right), "-" is U+2500 (horizontal)  *)
(* and "|" is U+2502 (vertical).                                           *)

EmptyString == << >>

Space == " "

Newline == "\n"

RECURSIVE Join(_, _)
\* [String]::join(sep)
Join(strings, sep) ==
    IF strings = << >> THEN EmptyString
    ELSE IF Len(strings) = 1 THEN strings[1]
    ELSE strings[1] \o << sep >> \o Join(Tail(strings), sep)

RECURSIVE Split(_, _)
\* str::split(sep): the pieces between the separators, one more than there
\* are separators
Split(string, sep) ==
    IF \A i \in 1..Len(string) : string[i] # sep THEN << string >>
    ELSE LET i == CHOOSE k \in 1..Len(string) :
                     string[k] = sep /\ \A j \in 1..(k - 1) : string[j] # sep
         IN << SubSeq(string, 1, i - 1) >> \o Split(SubSeq(string, i + 1, Len(string)), sep)

\* str::lines(): the pieces between the newlines, without the last piece when
\* it is empty
Lines(string) ==
    LET pieces == Split(string, Newline)
    IN IF pieces[Len(pieces)] = EmptyString
       THEN SubSeq(pieces, 1, Len(pieces) - 1)
       ELSE pieces

\* format!("L--- {line}") and format!("T--- {line}")
BranchPrefix(last) ==
    IF last THEN << "L", "-", "-", "-", " " >> ELSE << "T", "-", "-", "-", " " >>

\* mutant: the continuation under a last child is four spaces wide
ContinuationPrefixFour(last) ==
    IF last THEN << " ", " ", " ", " " >> ELSE << "|", " ", " ", " ", " " >>

\* format!("     {line}") and format!("|    {line}")
ContinuationPrefix(last) ==
    IF last THEN << " ", " ", " ", " ", " " >> ELSE << "|", " ", " ", " ", " " >>

\* the lines one child adds to components: its subtree's lines, prefixed
PrefixedLines(last, lines) ==
    [ k \in 1..Len(lines) |->
        (IF k = 1 THEN BranchPrefix(last) ELSE ContinuationPrefix(last)) \o lines[k] ]

\* mutant: a pid that matches no process falls back on the first process
FindOrFirst(processes, pid) ==
    IF \E i \in 1..Len(processes) : processes[i].pid = pid
    THEN Some(processes[CHOOSE i \in 1..Len(processes) :
                  processes[i].pid = pid /\ \A j \in 1..(i - 1) : processes[j].pid # pid])
    ELSE IF processes # << >> THEN Some(processes[1]) ELSE None

\* build.processes.iter().find(|p| p.pid == pid)
Find(processes, pid) ==
    IF \E i \in 1..Len(processes) : processes[i].pid = pid
    THEN Some(processes[CHOOSE i \in 1..Len(processes) :
                  processes[i].pid = pid /\ \A j \in 1..(i - 1) : processes[j].pid # pid])
    ELSE None

\* mutant: a process is no child of itself
IsChildOfOther(p, pid) == p.parent_pid = pid /\ p.pid # pid

IsChildOf(p, pid) == p.parent_pid = pid

\* build.processes.iter().filter(|p| p.parent_pid == pid).collect()
Children(processes, pid) == SelectSeq(processes, LAMBDA p : IsChildOf(p, pid))

RECURSIVE render_tree(_, _)
RECURSIVE ChildComponents(_, _, _)

\* the body of `for (i, child) in children.iter().enumerate()`, from child i on
ChildComponents(processes, children, i) ==
    IF i > Len(children) THEN << >>
    ELSE PrefixedLines(i = Len(children), Lines(render_tree(processes, children[i].pid)))
         \o ChildComponents(processes, children, i + 1)

\* render_tree(build, pid), on build.processes
render_tree(processes, pid) ==
    LET top == Find(processes, pid)
    IN IF top = None THEN EmptyString
       ELSE Join(<< Join(top[1].argv, Space) >>
                   \o ChildComponents(processes, Children(processes, pid), 1),
                 Newline)

\* argv of the process pid when it has one: a command and its argument
Argv(pid) ==
    << << "p" >>, << << "0", "1", "2", "3", "4", "5", "6", "7", "8", "9" >>[pid + 1] >> >>

\* a parent_pid that is the pid of no process of the build
Absent == 0

RECURSIVE Ancestor(_, _, _)
\* the pid reached from pid by k parent links, Absent when the links end before
Ancestor(parents, pid, k) ==
    IF k = 0 \/ pid = Absent THEN pid ELSE Ancestor(parents, parents[pid], k - 1)

\* no process is its own ancestor
Acyclic(parents, n) == \A i \in 1..n : Ancestor(parents, i, n) = Absent

\* a build of n processes: process i has pid i, the parent parents[i] and an
\* argv when i is in named
TreeBuild(n, parents, named) ==
    [ i \in 1..n |-> [pid |-> i, parent_pid |-> parents[i],
                      argv |-> IF i \in named THEN Argv(i) ELSE << >>] ]

----------------------------------------------------------------------------
(* show_duration.  A TimeDelta is its whole number of seconds.              *)

SecondsPerDay == 86400

SecondsPerHour == 3600

SecondsPerMinute == 60

\* TimeDelta::num_days, num_hours, num_minutes, num_seconds: the whole units
\* of the delta, rounded towards zero
WholeUnits(delta, unit) ==
    IF delta >= 0 THEN delta \div unit ELSE 0 - ((0 - delta) \div unit)

num_days(delta) == WholeUnits(delta, SecondsPerDay)

num_hours(delta) == WholeUnits(delta, SecondsPerHour)

num_minutes(delta) == WholeUnits(delta, SecondsPerMinute)

num_seconds(delta) == delta

DigitChars == << "0", "1", "2", "3", "4", "5", "6", "7", "8", "9" >>

RECURSIVE Decimal(_)
\* format!("{}", n) of an integer that is not negative
Decimal(n) ==
    IF n < 10 THEN << DigitChars[n + 1] >>
    ELSE Decimal(n \div 10) \o << DigitChars[(n % 10) + 1] >>

\* format!("{}d", n) and the like
Component(n, unit) == Decimal(n) \o << unit >>

\* mutant: minutes and seconds are pushed whatever was pushed before
RoomLeftAlways(components) == TRUE

\* components.len() < 2
RoomLeft(components) == Len(components) < 2

\* show_duration(duration): the four `if`s in their order, each on the
\* duration the ones before it have left
show_duration(delta) ==
    LET days == num_days(delta) > 0
        c1 == IF days THEN << Component(num_days(delta), "d") >> ELSE << >>
        d1 == IF days THEN delta - SecondsPerDay * num_days(delta) ELSE delta
        hours == num_hours(d1) > 0
        c2 == IF hours THEN Append(c1, Component(num_hours(d1), "h")) ELSE c1
        d2 == IF hours THEN d1 - SecondsPerHour * num_hours(d1) ELSE d1
        minutes == num_minutes(d2) > 0 /\ RoomLeft(c2)
        c3 == IF minutes THEN Append(c2, Component(num_minutes(d2), "m")) ELSE c2
        d3 == IF minutes THEN d2 - SecondsPerMinute * num_minutes(d2) ELSE d2
        seconds == num_seconds(d3) > 0 /\ RoomLeft(c3)
        c4 == IF seconds THEN Append(c3, Component(num_seconds(d3), "s")) ELSE c3
    IN Join(c4, Space)

----------------------------------------------------------------------------
(* The state after App::new(), at the entry of App::run *)

Pending == << "pending" >>

InitLoop ==
    /\ pc = "start"
    /\ result = "none"
    /\ running = TRUE
    /\ queue = << >>
    /\ closed = FALSE
    /\ refresh_interval = DefaultInterval
    /\ active_builds = << >>
    /\ selected = None
    /\ direction = "Vertical"
    /\ relay = "unspawned"
    /\ tasks = << >>
    /\ event = NoEvent

Init ==
    /\ InitLoop
    /\ build = << >>
    /\ root = Absent
    /\ tree = Pending
    /\ stack = << >>
    /\ duration = 0
    /\ shown = Pending

----------------------------------------------------------------------------
(* App::run *)

IsTerminal(e) == e.type \in {"Key", "Resize"}

\* mutant: the guard on key_event.kind is missing
IsPressOfAnyKind(e) == e.type = "Key"

IsPress(e) == e.type = "Key" /\ e.kind = "Press"

IsPlus(e) == IsPress(e) /\ e.code \in {"=", "+"}

IsRefresh(e) == e.type = "Refresh"

\* the terminal events waiting in the channel
PendingTerminal(q) == Cardinality({ i \in 1..Len(q) : IsTerminal(q[i]) })

\* the '+' presses waiting in the channel
PendingPlus(q) == Cardinality({ i \in 1..Len(q) : IsPlus(q[i]) })

\* sender.send(e): Err, and nothing sent, once the receiver is gone
Send(q, isClosed, e) == IF isClosed THEN q ELSE Append(q, e)

\* mutant: the newest event is received first
ReceivedNewest(q) == q[Len(q)]

\* receiver.recv(): the oldest event of the channel
Received(q) == Head(q)

\* what recv() leaves in the channel
Remaining(q) == Tail(q)

\* run returns: self is dropped, and with it the receiver and what it holds
Return(res) ==
    /\ pc' = "returned"
    /\ result' = res
    /\ closed' = TRUE
    /\ queue' = << >>

\* tokio::spawn of the terminal event task
RunStart ==
    /\ pc = "start"
    /\ pc' = "get"
    /\ relay' = "running"
    /\ UNCHANGED << result, running, queue, closed, refresh_interval, active_builds,
                    selected, direction, tasks, event >>
    /\ UNCHANGED pureVars

\* send initial data: the awaited ps::get() and the send of its result
InitialGet(outputs) ==
    /\ pc = "get"
    /\ \E output \in outputs : queue' = Send(queue, closed, Refresh(output))
    /\ pc' = "top"
    /\ UNCHANGED << result, running, closed, refresh_interval, active_builds,
                    selected, direction, relay, tasks, event >>
    /\ UNCHANGED pureVars

\* `while self.running` and a terminal.draw that succeeds
Draw ==
    /\ pc = "top"
    /\ IF running
       THEN /\ pc' = "recv"
            /\ selected' = render_stateful_widget(selected, Len(active_builds))
            /\ event' = NoEvent
            /\ UNCHANGED << result, closed, queue >>
       ELSE /\ Return("ok")
            /\ UNCHANGED << selected, event >>
    /\ UNCHANGED << running, refresh_interval, active_builds, direction, relay, tasks >>
    /\ UNCHANGED pureVars

\* terminal.draw(...)? fails: run returns the error
DrawFail ==
    /\ pc = "top"
    /\ running
    /\ Return("err")
    /\ UNCHANGED << running, refresh_interval, active_builds, selected, direction,
                    relay, tasks, event >>
    /\ UNCHANGED pureVars

\* mutant: the Quit arm does not break
AfterDispatchNoBreak(e) == "top"

\* mutant: after an arm the loop receives again without drawing
AfterDispatchNoDraw(e) == IF e.type = "Quit" THEN "break" ELSE "recv"

\* where the loop goes after the arm of a dispatched event
AfterDispatch(e) == IF e.type = "Quit" THEN "break" ELSE "top"

\* Event::Terminal(Key(key_event)) with kind Press: handle_key_events
DispatchKey ==
    /\ pc = "recv" /\ queue # << >> /\ IsPress(Received(queue))
    /\ event' = Received(queue)
    /\ refresh_interval' = KeyInterval(event'.code, refresh_interval)
    /\ selected' = KeySelected(event'.code, selected)
    /\ direction' = KeyDirection(event'.code, direction)
    /\ queue' = Remaining(queue) \o KeySends(event'.code, event'.mods)
    /\ pc' = AfterDispatch(event')
    /\ UNCHANGED << result, running, closed, active_builds, relay, tasks >>
    /\ UNCHANGED pureVars

\* Event::Terminal(_): the `_ => {}` arm
DispatchIgnored ==
    /\ pc = "recv" /\ queue # << >>
    /\ IsTerminal(Received(queue)) /\ ~IsPress(Received(queue))
    /\ event' = Received(queue)
    /\ queue' = Remaining(queue)
    /\ pc' = AfterDispatch(event')
    /\ UNCHANGED << result, running, closed, refresh_interval, active_builds,
                    selected, direction, relay, tasks >>
    /\ UNCHANGED pureVars

\* AppEvent::Refresh(output) => self.refresh(output)
DispatchRefresh ==
    /\ pc = "recv" /\ queue # << >> /\ IsRefresh(Received(queue))
    /\ event' = Received(queue)
    /\ active_builds' = RefreshBuilds(event'.output, active_builds)
    /\ selected' = RefreshSelected(event'.output, selected, active_builds)
    /\ tasks' = RefreshTasks(event'.output, refresh_interval, tasks)
    /\ queue' = Remaining(queue)
    /\ pc' = AfterDispatch(event')
    /\ UNCHANGED << result, running, closed, refresh_interval, direction, relay >>
    /\ UNCHANGED pureVars

\* AppEvent::Quit => break, and the Ok(()) after the loop
DispatchQuit ==
    /\ pc = "recv" /\ queue # << >> /\ Received(queue).type = "Quit"
    /\ event' = Received(queue)
    /\ IF AfterDispatch(event') = "break"
       THEN Return("ok")
       ELSE /\ pc' = "top"
            /\ queue' = Remaining(queue)
            /\ UNCHANGED << result, closed >>
    /\ UNCHANGED << running, refresh_interval, active_builds, selected, direction,
                    relay, tasks >>
    /\ UNCHANGED pureVars

----------------------------------------------------------------------------
(* main *)

\* mutant: the result is propagated with `?` before ratatui::restore()
RestoreOnOkOnly ==
    /\ pc = "returned"
    /\ IF result = "ok"
       THEN pc' = "restored" /\ UNCHANGED << relay, tasks >>
       ELSE pc' = "exited" /\ relay' = "done" /\ tasks' = << >>
    /\ UNCHANGED << result, running, queue, closed, refresh_interval, active_builds,
                    selected, direction, event >>
    /\ UNCHANGED pureVars

\* ratatui::restore()
Restore ==
    /\ pc = "returned"
    /\ pc' = "restored"
    /\ UNCHANGED << result, running, queue, closed, refresh_interval, active_builds,
                    selected, direction, relay, tasks, event >>
    /\ UNCHANGED pureVars

\* main returns result: the runtime shuts down and drops the tasks still alive
MainReturn ==
    /\ pc = "restored"
    /\ pc' = "exited"
    /\ relay' = "done"
    /\ tasks' = << >>
    /\ UNCHANGED << result, running, queue, closed, refresh_interval, active_builds,
                    selected, direction, event >>
    /\ UNCHANGED pureVars

----------------------------------------------------------------------------
(* The terminal event task *)

\* Some(Ok(evt)) = reader.next() => sender.send(Event::Terminal(evt))
RelayForward(events) ==
    /\ relay = "running"
    /\ ~closed
    /\ PendingTerminal(queue) < MaxQueue
    /\ \E e \in events :
        /\ IsPlus(e) =>
             refresh_interval + IntervalStep * (PendingPlus(queue) + 1)
                <= DefaultInterval + MaxPlus * IntervalStep
        /\ queue' = Send(queue, closed, e)
    /\ UNCHANGED << pc, result, running, closed, refresh_interval, active_builds,
                    selected, direction, relay, tasks, event >>
    /\ UNCHANGED pureVars

\* _ = sender.closed() => break
RelayStop ==
    /\ relay = "running"
    /\ closed
    /\ relay' = "done"
    /\ UNCHANGED << pc, result, running, queue, closed, refresh_interval,
                    active_builds, selected, direction, tasks, event >>
    /\ UNCHANGED pureVars

----------------------------------------------------------------------------
(* The refresh task *)

Remove(s, i) == SubSeq(s, 1, i - 1) \o SubSeq(s, i + 1, Len(s))

\* mutant: the fetch is awaited without the second select
CancellableAsleepOnly(task) == task.at = "sleep"

\* the suspension points that race sender.closed(): the delay and the fetch
Cancellable(task) == task.at \in {"sleep", "fetch"}

\* _ = time::sleep(duration) => the inner select
TaskWake ==
    /\ \E i \in 1..Len(tasks) :
        /\ tasks[i].at = "sleep"
        /\ tasks' = [tasks EXCEPT ![i].at = "fetch"]
    /\ UNCHANGED << pc, result, running, queue, closed, refresh_interval,
                    active_builds, selected, direction, relay, event >>
    /\ UNCHANGED pureVars

\* _ = sender.closed() => {}, in the outer or in the inner select
TaskCancel ==
    /\ closed
    /\ \E i \in 1..Len(tasks) :
        /\ Cancellable(tasks[i])
        /\ tasks' = Remove(tasks, i)
    /\ UNCHANGED << pc, result, running, queue, closed, refresh_interval,
                    active_builds, selected, direction, relay, event >>
    /\ UNCHANGED pureVars

\* output = ps::get() => sender.send(Event::App(AppEvent::Refresh(output)))
TaskSend(outputs) ==
    /\ \E i \in 1..Len(tasks) :
        /\ tasks[i].at = "fetch"
        /\ tasks' = Remove(tasks, i)
        /\ \E output \in outputs : queue' = Send(queue, closed, Refresh(output))
    /\ UNCHANGED << pc, result, running, closed, refresh_interval, active_builds,
                    selected, direction, relay, event >>
    /\ UNCHANGED pureVars

----------------------------------------------------------------------------
(* The program in an environment: the events the terminal produces and the *)
(* outputs ps::get() returns                                               *)

NextOn(events, outputs) ==
    \/ RunStart
    \/ InitialGet(outputs)
    \/ Draw
    \/ DrawFail
    \/ DispatchKey
    \/ DispatchIgnored
    \/ DispatchRefresh
    \/ DispatchQuit
    \/ Restore
    \/ MainReturn
    \/ RelayForward(events)
    \/ RelayStop
    \/ TaskWake
    \/ TaskCancel
    \/ TaskSend(outputs)

Next == NextOn(TerminalEvents, PsGet)

\* every snapshot; the selection keys and the quit keys
Spec == Init /\ [][Next]_vars

NextInterval == NextOn(IntervalEvents, {Err, Ok(<< >>)})

\* the interval keys and the layout key; the snapshots always empty
SpecInterval == Init /\ [][NextInterval]_vars

\* a selection key, a quit key and a resize
LiveEvents == { Press("Down"), Press("q"), [type |-> "Resize"] }

\* an error, or a snapshot of at most one build
LiveOutputs == { o \in PsGet : Len(o.builds) <= 1 }

NextLive == NextOn(LiveEvents, LiveOutputs)

\* the loop takes its steps, timers fire and every ps::get() completes
SpecLive ==
    /\ Init /\ [][NextLive]_vars
    /\ WF_vars(RunStart) /\ WF_vars(InitialGet(LiveOutputs))
    /\ WF_vars(Draw)
    /\ WF_vars(DispatchKey) /\ WF_vars(DispatchIgnored)
    /\ WF_vars(DispatchRefresh) /\ WF_vars(DispatchQuit)
    /\ WF_vars(TaskWake) /\ WF_vars(TaskSend(LiveOutputs))

\* the tasks are polled: a task whose sender.closed() has resolved takes that
\* branch; nothing is assumed of ps::get(), of the loop or of the runtime
SpecCancel ==
    /\ Init /\ [][NextLive]_vars
    /\ WF_vars(RelayStop) /\ WF_vars(TaskCancel)

\* the quit keys, 'c' without Control and a resize
QuitEvents ==
    { Press("q"), Press("c"), Key("Press", "c", {"CONTROL"}),
      Key("Press", "C", {"CONTROL"}), [type |-> "Resize"] }

NextQuit == NextOn(QuitEvents, LiveOutputs)

\* as SpecLive, with the quit keys
SpecQuit ==
    /\ Init /\ [][NextQuit]_vars
    /\ WF_vars(RunStart) /\ WF_vars(InitialGet(LiveOutputs))
    /\ WF_vars(Draw)
    /\ WF_vars(DispatchKey) /\ WF_vars(DispatchIgnored)
    /\ WF_vars(DispatchRefresh) /\ WF_vars(DispatchQuit)
    /\ WF_vars(TaskWake) /\ WF_vars(TaskSend(LiveOutputs))

----------------------------------------------------------------------------
(* render_tree on every build of at most MaxProcs processes, none its own   *)
(* ancestor, and every root pid                                            *)

InitTree ==
    /\ InitLoop
    /\ \E n \in 0..MaxProcs :
         \E parents \in [1..n -> 0..n] :
           \E named \in SUBSET (1..n) :
             /\ Acyclic(parents, n)
             /\ build = TreeBuild(n, parents, named)
    /\ root \in 0..MaxProcs
    /\ tree = Pending
    /\ stack = << >>
    /\ duration = 0
    /\ shown = Pending

\* Paragraph::new(render_tree(build, build.main_pid))
RenderTree ==
    /\ tree = Pending
    /\ tree' = render_tree(build, root)
    /\ UNCHANGED << build, root, stack >>
    /\ UNCHANGED durationVars
    /\ UNCHANGED loopVars

NextTree == RenderTree

SpecTree == InitTree /\ [][NextTree]_vars

----------------------------------------------------------------------------
(* show_duration on every whole number of seconds from 0 to the last second *)
(* of day MaxDays                                                           *)

InitDuration ==
    /\ InitLoop
    /\ build = << >>
    /\ root = Absent
    /\ tree = Pending
    /\ stack = << >>
    /\ duration \in 0..((MaxDays + 1) * SecondsPerDay - 1)
    /\ shown = Pending

\* show_duration(Utc::now() - value.started()), in a row of the table
ShowDuration ==
    /\ shown = Pending
    /\ shown' = show_duration(duration)
    /\ UNCHANGED << duration, stack >>
    /\ UNCHANGED treeVars
    /\ UNCHANGED loopVars

NextDuration == ShowDuration

SpecDuration == InitDuration /\ [][NextDuration]_vars

----------------------------------------------------------------------------
(* render_tree call by call, on every build of at most MaxCallProcs        *)
(* processes, cycles of parent_pid included.  A frame of the stack is one call in     *)
(* progress: its pid, its children, the index i of the child it renders    *)
(* next (from 1) and its components so far.                                *)

\* the frame of render_tree(build, pid) when it reaches its `for`
Frame(processes, pid) ==
    [pid |-> pid,
     children |-> Children(processes, pid),
     i |-> 1,
     components |-> << Join(Find(processes, pid)[1].argv, Space) >>]

\* the caller's frame once the call for its child i has returned subtree
Resume(frame, subtree) ==
    [frame EXCEPT !.components = @ \o PrefixedLines(frame.i = Len(frame.children),
                                                     Lines(subtree)),
                  !.i = @ + 1]

InitCall ==
    /\ InitLoop
    /\ \E n \in 0..MaxCallProcs :
         \E parents \in [1..n -> 0..n] : build = TreeBuild(n, parents, 1..n)
    /\ root \in 0..MaxCallProcs
    /\ tree = Pending
    /\ stack = << >>
    /\ duration = 0
    /\ shown = Pending

\* render_tree(build, build.main_pid) is called: the let-else on find()
TreeCall ==
    /\ tree = Pending /\ stack = << >>
    /\ IF Find(build, root) = None
       THEN tree' = EmptyString /\ stack' = stack
       ELSE tree' = tree /\ stack' = << Frame(build, root) >>
    /\ UNCHANGED << build, root >>
    /\ UNCHANGED durationVars
    /\ UNCHANGED loopVars

\* let subtree = render_tree(build, child.pid): child is one of the processes,
\* so find() finds a process of its pid
TreeDescend ==
    /\ stack # << >>
    /\ Len(stack) < MaxDepth
    /\ LET top == stack[Len(stack)]
       IN /\ top.i <= Len(top.children)
          /\ stack' = Append(stack, Frame(build, top.children[top.i].pid))
    /\ UNCHANGED << build, root, tree >>
    /\ UNCHANGED durationVars
    /\ UNCHANGED loopVars

\* components.join("\n"), returned to the caller's `for` or, by the first
\* call, to render_build_details
TreeReturn ==
    /\ stack # << >>
    /\ LET top == stack[Len(stack)]
           subtree == Join(top.components, Newline)
           callers == SubSeq(stack, 1, Len(stack) - 1)
       IN /\ top.i > Len(top.children)
          /\ IF callers = << >>
             THEN tree' = subtree /\ stack' = << >>
             ELSE /\ tree' = tree
                  /\ stack' = [callers EXCEPT ![Len(callers)] = Resume(@, subtree)]
    /\ UNCHANGED << build, root >>
    /\ UNCHANGED durationVars
    /\ UNCHANGED loopVars

NextCall == TreeCall \/ TreeDescend \/ TreeReturn

\* a call in progress goes on
SpecCall == InitCall /\ [][NextCall]_vars /\ WF_vars(NextCall)

----------------------------------------------------------------------------
(* Steps of the loop, as the properties below tell them apart *)

\* the loop is between its entry and its return
InLoop == pc \in {"top", "recv"}

\* run has returned
Ended == pc \in {"returned", "restored", "exited"}

\* this step receives the event at the head of the channel and dispatches it
Dequeues == pc = "recv" /\ queue # << >> /\ pc' # pc

\* this step is a render: a draw that succeeded
Renders == pc = "top" /\ pc' = "recv"

\* this step spawns a refresh task
Spawns == Len(tasks') > Len(tasks)

QuitQueued == \E i \in 1..Len(queue) : queue[i].type = "Quit"

RefreshQueued == \E i \in 1..Len(queue) : IsRefresh(queue[i])

----------------------------------------------------------------------------
(* C1: the refresh interval is at least 100 ms in every reachable state,   *)
(* and a '-' press whose result would be below 100 ms leaves the interval  *)
(* as it was.                                                              *)

C1_IntervalFloor ==
    /\ refresh_interval >= IntervalFloor
    /\ [][ /\ refresh_interval' >= IntervalFloor
           /\ ( /\ Dequeues
                /\ IsPress(Head(queue)) /\ Head(queue).code = "-"
                /\ refresh_interval - IntervalStep < IntervalFloor )
              => refresh_interval' = refresh_interval ]_vars

\* a '-' press has just been dispatched with the interval at the floor, which
\* it had already reached when the pending delay was armed
C1_Witness ==
    /\ pc = "top"
    /\ event = Press("-")
    /\ refresh_interval = IntervalFloor
    /\ tasks # << >> /\ tasks[1].duration = IntervalFloor

----------------------------------------------------------------------------
(* C2: the step that dequeues a Quit event returns from the loop with Ok;  *)
(* from then on there is no render, no dispatch of an event, no spawn of a *)
(* refresh task and no event in the channel.                               *)

C2_QuitExitsAtOnce ==
    /\ [][ (Dequeues /\ Head(queue).type = "Quit")
              => (pc' = "returned" /\ result' = "ok" /\ ~Spawns /\ event' = Quit) ]_vars
    /\ [][ Ended => ( /\ Ended'
                      /\ ~Spawns
                      /\ event' = event
                      /\ queue' = << >>
                      /\ << active_builds, selected, refresh_interval, direction >>'
                           = << active_builds, selected, refresh_interval, direction >> ) ]_vars

\* the loop has returned on a Quit while a refresh task was pending
C2_Witness ==
    /\ pc = "returned"
    /\ result = "ok"
    /\ event = Quit
    /\ tasks # << >>

----------------------------------------------------------------------------
(* C3, as claimed: from the dispatch of a quit key press to the loop's     *)
(* exit there is no render, no dispatch of another event and no spawn.     *)
(* A Quit is in the channel exactly from the dispatch of a quit key press  *)
(* until the loop's exit.                                                  *)

C3_NoRenderAfterQuitKey ==
    [][ (InLoop /\ QuitQueued) => (~Renders /\ ~Spawns /\ (Dequeues => pc' = "returned")) ]_vars

(* C3, amended: the dispatch of a quit key press ('q', or 'c'/'C' with     *)
(* exactly Control) only appends a Quit to the tail of the channel and the *)
(* loop goes on to its next render; the Quit stays in the channel, moving  *)
(* up one place with each dispatch of an event ahead of it, until the loop *)
(* exits, which it does on dequeuing the Quit (or on a failed draw).       *)

FirstQuit(q) == CHOOSE i \in 1..Len(q) : q[i].type = "Quit" /\ \A j \in 1..(i - 1) : q[j].type # "Quit"

C3_QuitKeyEnqueuesQuit ==
    /\ [][ ( /\ Dequeues
             /\ IsPress(Head(queue))
             /\ IsQuitKey(Head(queue).code, Head(queue).mods) )
              => (pc' = "top" /\ queue' = Append(Tail(queue), Quit) /\ ~closed') ]_vars
    /\ [][ (InLoop /\ QuitQueued)
              => \/ /\ QuitQueued'
                    /\ FirstQuit(queue') = FirstQuit(queue) - (IF Dequeues THEN 1 ELSE 0)
                 \/ /\ pc' = "returned"
                    /\ \/ pc = "recv" /\ Head(queue) = Quit /\ result' = "ok"
                       \/ pc = "top" /\ result' = "err" ]_vars

\* a Refresh that was ahead of the Quit has been dispatched after the quit key
\* press and has spawned its refresh task
C3_Witness ==
    /\ pc = "top"
    /\ IsRefresh(event)
    /\ QuitQueued
    /\ tasks # << >>

----------------------------------------------------------------------------
(* C4: the dispatch of a Refresh that carries an error leaves              *)
(* active_builds and the selection as they were, and the loop goes on.     *)

C4_ErrorKeepsSnapshot ==
    [][ (Dequeues /\ IsRefresh(Head(queue)) /\ ~Head(queue).output.ok)
          => ( /\ active_builds' = active_builds
               /\ selected' = selected
               /\ pc' = "top" /\ result' = "none" /\ ~closed' /\ running' ) ]_vars

\* an error has just been dispatched over a snapshot with a selected build
C4_Witness ==
    /\ pc = "top"
    /\ event = Refresh(Err)
    /\ active_builds # << >>
    /\ selected # None
    /\ result = "none"

----------------------------------------------------------------------------
(* C6: across the dispatch of a successful Refresh, if a build was         *)
(* selected, the selection becomes the (first) index in the new snapshot   *)
(* of a build with the same nix_pid when there is one, and None when there *)
(* is none; it never points at a build with another nix_pid.               *)

C6_SelectionFollowsIdentity ==
    [][ ( /\ Dequeues /\ IsRefresh(Head(queue)) /\ Head(queue).output.ok
          /\ selected # None /\ selected[1] < Len(active_builds) )
          => LET new == Head(queue).output.builds
                 pid == active_builds[selected[1] + 1].nix_pid
                 same == { i \in 1..Len(new) : new[i].nix_pid = pid }
             IN /\ active_builds' = new
                /\ IF same = {} THEN selected' = None
                   ELSE /\ selected' # None
                        /\ selected'[1] + 1 \in same
                        /\ \A i \in same : selected'[1] + 1 <= i ]_vars

\* about to be dispatched: a snapshot in which the selected build (row 1)
\* has moved to row 0 and row 1 holds another build
C6_Witness ==
    /\ pc = "recv" /\ queue # << >>
    /\ IsRefresh(Head(queue)) /\ Head(queue).output.ok
    /\ Len(active_builds) = 2 /\ selected = Some(1)
    /\ LET new == Head(queue).output.builds
       IN /\ Len(new) = 2
          /\ new[1].nix_pid = active_builds[2].nix_pid
          /\ new[2].nix_pid # active_builds[2].nix_pid

----------------------------------------------------------------------------
(* C7, as claimed: after the dispatch of any Refresh event active_builds   *)
(* is that event's payload.                                                *)

C7_LastRefreshIsSnapshot ==
    (pc = "top" /\ IsRefresh(event)) => (event.output.ok /\ active_builds = event.output.builds)

(* C7, amended: events are dispatched in the order they were enqueued      *)
(* (every send appends at the tail, every receive takes the head), and     *)
(* active_builds is, whole, the payload of the most recently dispatched    *)
(* Refresh that carried a snapshot: a Refresh(Ok) replaces it by its       *)
(* payload and no other step changes it.                                   *)

Snapshots == { o.builds : o \in PsGet }

C7_FifoWholeSnapshots ==
    /\ active_builds \in Snapshots
    /\ [][ /\ Dequeues => ( /\ event' = Head(queue)
                            /\ \/ closed' /\ queue' = << >>
                               \/ queue' \in {Tail(queue), Append(Tail(queue), Quit)} )
           /\ ~Dequeues => \/ queue' = queue
                           \/ Len(queue') = Len(queue) + 1 /\ SubSeq(queue', 1, Len(queue)) = queue
                           \/ closed' /\ queue' = << >>
           /\ active_builds' \in Snapshots
           /\ IF Dequeues /\ IsRefresh(Head(queue)) /\ Head(queue).output.ok
              THEN active_builds' = Head(queue).output.builds
              ELSE active_builds' = active_builds ]_vars

\* a snapshot of two builds has just replaced another one, while the relay
\* had an event waiting behind it
C7_Witness ==
    /\ pc = "top"
    /\ IsRefresh(event) /\ event.output.ok
    /\ Len(active_builds) = 2
    /\ active_builds = event.output.builds
    /\ queue # << >>

----------------------------------------------------------------------------
(* C5: as long as the loop runs and every fetch completes, the dispatch of *)
(* a Refresh event, Ok or Err, is followed by the enqueuing of another     *)
(* Refresh event, and so at any time of the loop a Refresh event is        *)
(* enqueued later on: refreshes recur for as long as the loop runs.        *)

C5_RefreshRearms ==
    /\ (pc = "top" /\ IsRefresh(event)) ~> (RefreshQueued \/ Ended)
    /\ InLoop ~> (RefreshQueued \/ Ended)

\* an error has just been dispatched and the refresh it scheduled has
\* already enqueued its event
C5_Witness ==
    /\ pc = "top"
    /\ event = Refresh(Err)
    /\ RefreshQueued
    /\ tasks = << >>

----------------------------------------------------------------------------
(* C8: once run has returned and the receiver is gone, the terminal relay  *)
(* task and the pending refresh task, asleep or fetching, terminate, and   *)
(* no event is delivered any more.                                         *)

C8_TasksStopOnClose ==
    /\ closed ~> (relay = "done" /\ tasks = << >>)
    /\ [](closed => queue = << >>)

\* run has returned, the relay has stopped on its own and the refresh task,
\* caught in its fetch, is about to
C8_Witness ==
    /\ pc = "returned"
    /\ closed
    /\ relay = "done"
    /\ tasks # << >> /\ tasks[1].at = "fetch"

----------------------------------------------------------------------------
(* C9: the shape of render_tree's result for a root that is found: the     *)
(* root's label, then, for each child in the order of `processes`, the     *)
(* lines of the child's own rendering, the first behind the branch glyph   *)
(* and a space (T--- when the child is not the last, L--- when it is), the *)
(* others behind the continuation of that child.                           *)

RECURSIVE Flatten(_)
Flatten(seqs) == IF seqs = << >> THEN << >> ELSE Head(seqs) \o Flatten(Tail(seqs))

C9_Shape(continuationNotLast, continuationLast) ==
    (tree # Pending /\ \E i \in 1..Len(build) : build[i].pid = root)
    => LET top == build[CHOOSE i \in 1..Len(build) : build[i].pid = root]
           kids == SelectSeq(build, LAMBDA p : p.parent_pid = root)
           under(i) ==
               LET lines == Lines(render_tree(build, kids[i].pid))
                   last == (i = Len(kids))
               IN [ k \in 1..Len(lines) |->
                      ( IF k = 1
                        THEN (IF last THEN << "L", "-", "-", "-" >>
                                      ELSE << "T", "-", "-", "-" >>) \o << " " >>
                        ELSE (IF last THEN continuationLast ELSE continuationNotLast) )
                      \o lines[k] ]
       IN Split(tree, Newline)
            = << Join(top.argv, Space) >> \o Flatten([ i \in 1..Len(kids) |-> under(i) ])

(* C9, as claimed: the continuation is | and four spaces under a child     *)
(* that is not the last, and exactly four spaces under the last child.     *)

C9_FourSpacesUnderLast ==
    C9_Shape(<< "|", " ", " ", " ", " " >>, << " ", " ", " ", " " >>)

(* C9, amended: the continuation is | and four spaces under a child that   *)
(* is not the last, and five spaces under the last child: every prefix is  *)
(* five characters wide.                                                   *)

C9_FiveSpacesUnderLast ==
    C9_Shape(<< "|", " ", " ", " ", " " >>, << " ", " ", " ", " ", " " >>)

\* a rendering with a first child (T---), a last child (L---) and a line of
\* the last child's subtree behind its continuation
C9_Witness ==
    /\ tree # Pending
    /\ LET lines == Split(tree, Newline)
       IN /\ \E k \in 1..Len(lines) : Len(lines[k]) > 5 /\ lines[k][1] = "T"
          /\ \E k \in 1..Len(lines) : Len(lines[k]) > 5 /\ lines[k][1] = "L"
          /\ \E k \in 1..Len(lines) :
                Len(lines[k]) > 5 /\ SubSeq(lines[k], 1, 6) = << " ", " ", " ", " ", " ", "L" >>

----------------------------------------------------------------------------
(* C10: render_tree with a root pid that matches no process of the build,  *)
(* whatever processes there are, returns the empty string.                 *)

C10_UnmatchedRootIsEmpty ==
    (tree # Pending /\ \A i \in 1..Len(build) : build[i].pid # root) => tree = EmptyString

\* rendered: a root pid that no process has, in a build whose processes
\* include some that name that pid as their parent
C10_Witness ==
    /\ tree = EmptyString
    /\ \A i \in 1..Len(build) : build[i].pid # root
    /\ \E i \in 1..Len(build) : build[i].parent_pid = root /\ build[i].argv # << >>

----------------------------------------------------------------------------
(* C11: show_duration of a whole number of seconds that is not negative is *)
(* the first two non-zero components of its days/hours/minutes/seconds     *)
(* decomposition, largest first, each a number and its unit letter, joined *)
(* by one space: one component when only one is non-zero and the empty     *)
(* string for zero.                                                        *)

C11_Decomposition(delta) ==
    << << delta \div 86400, "d" >>, << (delta % 86400) \div 3600, "h" >>,
       << (delta % 3600) \div 60, "m" >>, << delta % 60, "s" >> >>

C11_FirstTwoNonZero(delta) ==
    LET nonzero == SelectSeq(C11_Decomposition(delta), LAMBDA c : c[1] # 0)
    IN SubSeq(nonzero, 1, IF Len(nonzero) < 2 THEN Len(nonzero) ELSE 2)

C11_FirstTwoComponents ==
    shown # Pending
    => LET parts == C11_FirstTwoNonZero(duration)
       IN /\ shown = Join([ k \in 1..Len(parts) |-> Decimal(parts[k][1]) \o << parts[k][2] >> ],
                          Space)
          /\ (duration = 0 <=> shown = EmptyString)
          /\ Cardinality({ k \in 1..Len(shown) : shown[k] = Space }) <= 1

\* 1 day 2 hours 5 minutes has been shown as "1d 2h"
C11_Witness ==
    /\ duration = 86400 + 2 * 3600 + 5 * 60
    /\ shown = << "1", "d", " ", "2", "h" >>

----------------------------------------------------------------------------
(* C12: however the loop ends (a Quit, a failed draw; recv() cannot fail   *)
(* while App holds its own sender), run returns its result to main, main   *)
(* restores the terminal next and only then returns that same result.      *)

C12_RestoreBeforeReport ==
    /\ [](Ended => result \in {"ok", "err"})
    /\ [][ /\ (InLoop /\ ~InLoop') => (pc' = "returned" /\ result' \in {"ok", "err"})
           /\ (pc = "returned" /\ pc' # pc) => pc' = "restored"
           /\ (pc = "restored" /\ pc' # pc) => pc' = "exited"
           /\ (pc' = "exited") => pc \in {"restored", "exited"}
           /\ Ended => result' = result ]_vars

\* the terminal has just been restored after a draw that failed
C12_Witness ==
    /\ pc = "restored"
    /\ result = "err"

----------------------------------------------------------------------------
(* C13: while the loop runs, the refresh tasks alive (asleep or fetching)  *)
(* and the Refresh events waiting in the channel are one in all, so at     *)
(* most one fetch is in flight; the dispatch of a terminal event, an       *)
(* interval key among them, spawns no task and leaves the tasks alone.     *)

RefreshTokens == Len(tasks) + Cardinality({ i \in 1..Len(queue) : IsRefresh(queue[i]) })

C13_OneRefreshToken ==
    /\ [](InLoop => ( /\ RefreshTokens = 1
                      /\ Cardinality({ i \in 1..Len(tasks) : tasks[i].at = "fetch" }) <= 1 ))
    /\ [][ (Dequeues /\ Head(queue).type \in {"Key", "Resize"})
              => (tasks' = tasks /\ RefreshTokens' = RefreshTokens) ]_vars

\* a '+' press has just been dispatched while the one refresh task was in
\* its fetch
C13_Witness ==
    /\ pc = "top"
    /\ event = Press("+")
    /\ Len(tasks) = 1 /\ tasks[1].at = "fetch"
    /\ refresh_interval # tasks[1].duration

----------------------------------------------------------------------------
(* C14: the refresh task spawned by the dispatch of a Refresh sleeps for   *)
(* the value refresh_interval has at that dispatch, with every interval    *)
(* key dispatched before it applied; the dispatch of a key, whatever it    *)
(* does to refresh_interval, leaves the tasks and their delays as they     *)
(* are, and no step changes the delay of a task that lives on.             *)

C14_DelayIsIntervalAtRearm ==
    [][ /\ (Dequeues /\ IsRefresh(Head(queue)))
             => ( /\ tasks' = Append(tasks, [at |-> "sleep", duration |-> refresh_interval])
                  /\ refresh_interval' = refresh_interval )
        /\ (Dequeues /\ Head(queue).type = "Key") => tasks' = tasks
        /\ (Len(tasks') = Len(tasks))
             => \A i \in 1..Len(tasks) : tasks'[i].duration = tasks[i].duration ]_vars

\* the pending delay was armed after one '-' press, and the '-' press just
\* dispatched has changed the interval without changing that delay
C14_Witness ==
    /\ pc = "top"
    /\ event = Press("-")
    /\ Len(tasks) = 1 /\ tasks[1].at = "sleep"
    /\ tasks[1].duration = DefaultInterval - IntervalStep
    /\ refresh_interval = DefaultInterval - 2 * IntervalStep

----------------------------------------------------------------------------
(* C15: the loop alternates one render and one dispatch.  An event is only *)
(* dequeued after a render that no dispatch has followed yet (Draw clears  *)
(* `event`, a dispatch sets it), and the dispatch of any event but a Quit  *)
(* takes the loop to its top, from where the only steps are a render of    *)
(* the state the dispatch left and the exit on a failed draw; the render   *)
(* leads to the receive.  With the loop taking its steps, each dispatch is *)
(* followed by that render or that exit.                                   *)

C15_RenderDispatchAlternate ==
    /\ [](pc = "recv" => event = NoEvent)
    /\ [][ /\ Dequeues => ( /\ event = NoEvent /\ event' = Head(queue)
                            /\ IF Head(queue).type = "Quit" THEN pc' = "returned"
                                                             ELSE pc' = "top" )
           /\ (pc = "top" /\ pc' # pc)
                => \/ Renders /\ event' = NoEvent
                                /\ active_builds' = active_builds
                                /\ queue' = queue /\ tasks' = tasks
                   \/ pc' = "returned" /\ result' = "err"
           /\ (pc = "recv" /\ pc' # pc) => Dequeues
           /\ (pc = "recv" /\ pc' = pc) => event' = event ]_vars
    /\ (pc = "top") ~> (pc = "recv" \/ Ended)

\* rendered again after the dispatch of a Refresh, with the next event, a
\* terminal one, waiting to be dequeued
C15_Witness ==
    /\ pc = "recv"
    /\ event = NoEvent
    /\ tasks # << >>
    /\ queue # << >> /\ IsTerminal(Head(queue))

----------------------------------------------------------------------------
(* C16: with the loop taking its steps, the dispatch of a quit key press   *)
(* ('q', or 'c' or 'C' with exactly Control) is followed by the loop's     *)
(* exit whatever the channel holds at the press: the Quit it sends moves   *)
(* up one place with each dispatch of an event ahead of it, and a Quit in  *)
(* the channel leads to the exit.                                          *)

C16_QuitKeys ==
    { Press("q"), Key("Press", "c", {"CONTROL"}), Key("Press", "C", {"CONTROL"}) }

C16_QuitKeyLeadsToExit ==
    /\ (pc = "top" /\ event \in C16_QuitKeys) ~> Ended
    /\ (InLoop /\ QuitQueued) ~> Ended
    /\ [][ (InLoop /\ QuitQueued /\ Dequeues /\ Head(queue) # Quit)
              => (QuitQueued' /\ FirstQuit(queue') = FirstQuit(queue) - 1) ]_vars

\* Ctrl-C has just been dispatched while a Refresh was waiting: its Quit is
\* behind the Refresh
C16_Witness ==
    /\ pc = "top"
    /\ event = Key("Press", "c", {"CONTROL"})
    /\ Len(queue) = 2
    /\ IsRefresh(queue[1]) /\ queue[2] = Quit

----------------------------------------------------------------------------
(* C17: in every reachable state active_builds is in ascending order of    *)
(* derivation; it is empty until the first successful Refresh is           *)
(* dispatched.                                                             *)

C17_SnapshotSorted ==
    /\ \A i, j \in 1..Len(active_builds) :
          i < j => active_builds[i].derivation <= active_builds[j].derivation
    /\ (pc \in {"start", "get"} => active_builds = << >>)

\* a snapshot of two builds is shown, in the order of their derivations and
\* against the order of their nix_pids
C17_Witness ==
    /\ Len(active_builds) = 2
    /\ active_builds[1].derivation < active_builds[2].derivation
    /\ active_builds[1].nix_pid > active_builds[2].nix_pid

----------------------------------------------------------------------------
(* C18, as claimed: for a build of processes with unique pids, none its    *)
(* own ancestor, and a root that is found, the lines of render_tree's      *)
(* result are, one for one and in pre-order (the children of a node in     *)
(* their order in `processes`), the processes reachable from the root: the *)
(* line of a process at depth d is a prefix of 5 * d characters and then   *)
(* its argv joined by spaces, an empty argv included.                      *)

C18_Label(pid) == Join(build[CHOOSE i \in 1..Len(build) : build[i].pid = pid].argv, Space)

C18_Kids(pid) == SelectSeq(build, LAMBDA p : p.parent_pid = pid)

RECURSIVE C18_PreOrder(_, _)
C18_PreOrder(pid, depth) ==
    LET kids == C18_Kids(pid)
    IN << << pid, depth >> >>
       \o Flatten([ i \in 1..Len(kids) |-> C18_PreOrder(kids[i].pid, depth + 1) ])

\* the lines are those of the processes listed, each behind its prefix
C18_LinesAre(listed) ==
    LET lines == Split(tree, Newline)
    IN /\ Len(lines) = Len(listed)
       /\ \A k \in 1..Len(listed) :
            /\ Len(lines[k]) = 5 * listed[k][2] + Len(C18_Label(listed[k][1]))
            /\ SubSeq(lines[k], 5 * listed[k][2] + 1, Len(lines[k])) = C18_Label(listed[k][1])

C18_RootFound == tree # Pending /\ \E i \in 1..Len(build) : build[i].pid = root

C18_OneLinePerProcess == C18_RootFound => C18_LinesAre(C18_PreOrder(root, 0))

(* C18, as the code does it: the same, without the processes below the     *)
(* root that have no line: those whose argv joins to the empty string and  *)
(* whose children all have no line.                                        *)

RECURSIVE C18_NoLine(_)
C18_NoLine(pid) ==
    /\ C18_Label(pid) = EmptyString
    /\ \A i \in 1..Len(C18_Kids(pid)) : C18_NoLine(C18_Kids(pid)[i].pid)

RECURSIVE C18_Shown(_, _)
C18_Shown(pid, depth) ==
    LET kids == SelectSeq(C18_Kids(pid), LAMBDA p : ~C18_NoLine(p.pid))
    IN << << pid, depth >> >>
       \o Flatten([ i \in 1..Len(kids) |-> C18_Shown(kids[i].pid, depth + 1) ])

C18_OneLinePerShownProcess == C18_RootFound => C18_LinesAre(C18_Shown(root, 0))

\* rendered: a root whose last child has an empty argv and no children, and
\* whose other child has a line, so that no line bears the glyph of a last
\* child
C18_Witness ==
    /\ C18_RootFound
    /\ Len(C18_Kids(root)) = 2
    /\ ~C18_NoLine(C18_Kids(root)[1].pid)
    /\ C18_Kids(root)[2].argv = << >>
    /\ C18_Kids(C18_Kids(root)[2].pid) = << >>
    /\ LET lines == Split(tree, Newline)
       IN /\ \E k \in 1..Len(lines) : lines[k] # << >> /\ lines[k][1] = "T"
          /\ \A k \in 1..Len(lines) : lines[k] # << >> => lines[k][1] # "L"

----------------------------------------------------------------------------
(* C19: render_tree returns when no process reachable from the root is its *)
(* own ancestor by parent_pid links (with the result the function has on   *)
(* such a build), and never returns when one is: the calls then nest       *)
(* deeper than there are processes, and without end.                       *)

C19_Parents == [ i \in 1..Len(build) |-> build[i].parent_pid ]

C19_Reachable ==
    { p \in 1..Len(build) :
        /\ root \in 1..Len(build)
        /\ \E k \in 0..Len(build) : Ancestor(C19_Parents, p, k) = root }

C19_OwnAncestor(p) == \E k \in 1..Len(build) : Ancestor(C19_Parents, p, k) = p

C19_Cyclic == \E p \in C19_Reachable : C19_OwnAncestor(p)

C19_ReturnsIffNoCycle ==
    /\ (~C19_Cyclic) ~> (tree # Pending)
    /\ []((~C19_Cyclic /\ tree # Pending) => (stack = << >> /\ tree = render_tree(build, root)))
    /\ [](C19_Cyclic => tree = Pending)
    /\ (C19_Cyclic /\ stack # << >>) ~> (Len(stack) > Len(build))

\* a process reachable from the root is its own ancestor without being its
\* own parent, and the calls in progress are more than the processes
C19_Witness ==
    /\ C19_Cyclic
    /\ \A i \in 1..Len(build) : build[i].parent_pid # build[i].pid
    /\ Len(stack) > Len(build)
    /\ tree = Pending

----------------------------------------------------------------------------
(* C20: the dispatch of a terminal event that is no key press (here a key  *)
(* release and a resize) changes none of active_builds, refresh_interval,  *)
(* the selection and the direction, sends nothing into the channel, spawns *)
(* no task and does not end the loop: it only takes the loop to its next   *)
(* render.                                                                 *)

C20_NotAPress(e) == e.type = "Resize" \/ (e.type = "Key" /\ e.kind # "Press")

C20_NonPressIsIgnored ==
    [][ (Dequeues /\ C20_NotAPress(Head(queue)))
          => ( /\ << active_builds, refresh_interval, selected, direction >>'
                    = << active_builds, refresh_interval, selected, direction >>
               /\ queue' = Tail(queue)
               /\ tasks' = tasks
               /\ << running, closed, result, relay >>' = << running, closed, result, relay >>
               /\ pc' = "top" ) ]_vars

\* the release of the 'q' key has just been dispatched over a snapshot with
\* a selected build: no Quit is in the channel and the loop goes on
C20_Witness ==
    /\ pc = "top"
    /\ event = Key("Release", "q", {})
    /\ ~QuitQueued
    /\ active_builds # << >> /\ selected # None
    /\ result = "none"

====
